---------------------------- MODULE Spec2Model ----------------------------
(***************************************************************************)
(* A model of inputmask-core: the Pattern compiler (Pattern._parse,        *)
(* Pattern.formatValue) and the InputMask edit engine (input, backspace,   *)
(* paste, undo, redo, setSelection, setValue, getValue, getRawValue).      *)
(*                                                                         *)
(* Characters are one-character strings.  A JavaScript string is a         *)
(* sequence of characters; a JavaScript array of characters is a sequence  *)
(* whose entries are characters, the empty string "" (an empty             *)
(* placeholderChar) or Undefined (a hole of `new Array(n)`, or a slot past *)
(* the end that an indexed store skipped).  Slot indices and selection     *)
(* offsets are 0-based as in the source; At/SetAt do the shift.            *)
(***************************************************************************)
EXTENDS Integers, Sequences, FiniteSets, TLC

\* ------------------------------------------------------------------ bounds
\* history items an edit may leave behind, with and without setSelection calls
MaxHistory == 1
MaxTypingHistory == 3
\* length of pasted texts and of setValue arguments
MaxPaste == 2
MaxValueLen == 2
\* length of the mask sources given to the compiler
MaxMaskLen == 3

\* `null` of `_historyIndex: number | null`
Null == -1

\* an array hole / undefined entry
Undefined == "undefined"

ESCAPE_CHAR == "\\"
DEFAULT_PLACEHOLDER_CHAR == "_"

\* ------------------------------------------------------- format characters
DigitChars == {"1", "5"}
LetterChars == {"a", "A", "b", "B"}

DIGIT_RE(c) == c \in DigitChars
LETTER_RE(c) == c \in LetterChars
ALPHANNUMERIC_RE(c) == c \in DigitChars \cup LetterChars

toUpperCase(c) == CASE c = "a" -> "A" [] c = "b" -> "B" [] OTHER -> c

\* the keys of DEFAULT_FORMAT_CHARACTERS
DEFAULT_FORMAT_CHARACTERS == {"*", "1", "a", "A", "#"}

FormatValidate(sym, c) ==
  CASE sym = "*" -> ALPHANNUMERIC_RE(c)
    [] sym = "1" -> DIGIT_RE(c)
    [] sym = "a" -> LETTER_RE(c)
    [] sym = "A" -> LETTER_RE(c)
    [] sym = "#" -> ALPHANNUMERIC_RE(c)
    [] OTHER -> FALSE

FormatTransform(sym, c) ==
  IF sym \in {"A", "#"} THEN toUpperCase(c) ELSE c

\* ------------------------------------------------------------ array helpers
At(seq, i) == IF i >= 0 /\ i < Len(seq) THEN seq[i + 1] ELSE Undefined

\* arr[i] = x; a store past the end leaves holes in between
SetAt(seq, i, x) ==
  [k \in 1..(IF i + 1 > Len(seq) THEN i + 1 ELSE Len(seq)) |->
     IF k = i + 1 THEN x ELSE IF k <= Len(seq) THEN seq[k] ELSE Undefined]

\* Array.prototype.join(''): undefined and '' contribute nothing
Join(arr) == SelectSeq(arr, LAMBDA e : e # Undefined /\ e # "")

\* String.prototype.split(''): one entry per character
Split(str) == str

\* arr.splice(i): drop everything from index i on
SpliceFrom(arr, i) == SubSeq(arr, 1, IF i < Len(arr) THEN i ELSE Len(arr))

\* --------------------------------------------------------------- Pattern
\* an index test no index inside the source satisfies
IsPastEnd(source, i) == i >= Len(source)

\* i === l - 1: the escape character is the last character of the source
IsLastIndex(source, i) == i = Len(source) - 1

\* the escape character itself
EscapeItself(source, i) == At(source, i)

\* char = sourceChars[++i]: the character an escape character stands before
EscapedChar(source, i) == At(source, i + 1)

RECURSIVE ParseFrom(_, _, _)
ParseFrom(source, i, acc) ==
  IF i >= Len(source) THEN acc
  ELSE LET char == At(source, i) IN
    IF char = ESCAPE_CHAR
      THEN IF IsLastIndex(source, i)
             THEN [acc EXCEPT !.error = "raw escape"]
             ELSE ParseFrom(source, i + 2,
                    [acc EXCEPT !.pattern = Append(@, EscapedChar(source, i))])
      ELSE IF char \in DEFAULT_FORMAT_CHARACTERS
        THEN ParseFrom(source, i + 1,
               [acc EXCEPT !.pattern = Append(@, char),
                           !.firstEditableIndex =
                              IF @ = Null THEN Len(acc.pattern) ELSE @,
                           !.lastEditableIndex = Len(acc.pattern),
                           !.editableIndices = @ \cup {Len(acc.pattern)}])
        ELSE ParseFrom(source, i + 1,
               [acc EXCEPT !.pattern = Append(@, char)])

\* the fields of a Pattern before _parse() has run
Unparsed(source, placeholder, revealing) ==
  [source |-> source, pattern |-> <<>>, error |-> "",
   firstEditableIndex |-> Null, lastEditableIndex |-> Null,
   editableIndices |-> {},
   placeholderChar |->
      IF placeholder = "" THEN DEFAULT_PLACEHOLDER_CHAR ELSE placeholder,
   isRevealingMask |-> revealing]

\* new Pattern(source, formatCharacters, placeholderChar, isRevealingMask)
Parse(source, placeholder, revealing) ==
  LET r == ParseFrom(source, 0, Unparsed(source, placeholder, revealing))
  IN IF r.error = "" /\ r.firstEditableIndex = Null
       THEN [r EXCEPT !.error = "no editable"]
       ELSE r

PLength(p) == Len(p.pattern)

isEditableIndex(p, index) == index \in p.editableIndices

\* validate(undefined) is false for every built-in validator
isValidAtIndex(p, char, index) ==
  char # Undefined /\ FormatValidate(At(p.pattern, index), char)

transform(p, char, index) == FormatTransform(At(p.pattern, index), char)

\* a candidate index that moves on only past an accepted character
AdvanceIfValid(valueIndex, valid) ==
  IF valid THEN valueIndex + 1 ELSE valueIndex

\* valueIndex++ at an editable slot, whatever the validator said
AdvanceAtEditable(valueIndex, valid) == valueIndex + 1

RECURSIVE FormatFrom(_, _, _, _, _)
FormatFrom(p, value, i, valueIndex, valueBuffer) ==
  IF i >= PLength(p) THEN valueBuffer
  ELSE IF isEditableIndex(p, i)
    THEN IF /\ p.isRevealingMask
            /\ Len(value) <= valueIndex
            /\ ~isValidAtIndex(p, At(value, valueIndex), i)
           THEN valueBuffer
           ELSE FormatFrom(p, value, i + 1,
                  AdvanceAtEditable(valueIndex,
                    Len(value) > valueIndex
                      /\ isValidAtIndex(p, At(value, valueIndex), i)),
                  SetAt(valueBuffer, i,
                    IF Len(value) > valueIndex
                         /\ isValidAtIndex(p, At(value, valueIndex), i)
                      THEN transform(p, At(value, valueIndex), i)
                      ELSE p.placeholderChar))
    ELSE FormatFrom(p, value, i + 1,
           IF Len(value) > valueIndex /\ At(value, valueIndex) = At(p.pattern, i)
             THEN valueIndex + 1 ELSE valueIndex,
           SetAt(valueBuffer, i, At(p.pattern, i)))

formatValue(p, value) ==
  FormatFrom(p, value, 0, 0, [k \in 1..PLength(p) |-> Undefined])

\* ------------------------------------------------------------ configuration
\* mask sources the engine is constructed with
PrefixMask == <<"-", "1", "A">>
DigitStaticMask == <<"1", "\\", "5", "1">>
ShortMask == <<"1", "-">>
StaticsMask == <<"1", "-", "/", "a">>
LongPrefixMask == <<"b", "-", "1">>

\* the constructor options {pattern, placeholderChar, isRevealingMask}
Configs ==
  { <<PrefixMask, "_", FALSE>>,
    <<DigitStaticMask, "_", FALSE>>,
    <<ShortMask, "", FALSE>>,
    <<ShortMask, "_", TRUE>> }

TypingConfigs == Configs \cup {<<StaticsMask, "_", FALSE>>}

\* characters a caller types, pastes or passes to setValue
InputChars == {"5", "b", "-"}

RECURSIVE StringsUpTo(_, _)
StringsUpTo(S, n) ==
  IF n = 0 THEN {<<>>}
  ELSE LET shorter == StringsUpTo(S, n - 1)
       IN shorter \cup {Append(t, c) : t \in {u \in shorter : Len(u) = n - 1}, c \in S}

\* ------------------------------------------------------------------- state
VARIABLES
  pattern,          \* this.pattern (immutable once constructed)
  placeholderChar,  \* this.placeholderChar
  value,            \* this.value
  selection,        \* this.selection
  history,          \* this._history
  historyIndex,     \* this._historyIndex (Null when not undoing)
  lastOp,           \* this._lastOp ("null", "input", "backspace")
  lastSelection,    \* this._lastSelection
  selAlias,         \* index of the history item whose selection object IS
                    \* this.selection (undo/redo assign it without copy), or Null
  lastCall,         \* the last public call: [op, arg, ret]
  phase,            \* where a scripted run of calls stands ("free": unscripted)
  before            \* what a scripted run recorded before its first undo

engine == <<value, selection, history, historyIndex, lastOp, lastSelection>>
vars == <<pattern, placeholderChar, value, selection, history, historyIndex,
          lastOp, lastSelection, selAlias, lastCall, phase, before>>

\* the engine's mutable fields as one record
Cur ==
  [value |-> value, selection |-> selection, history |-> history,
   historyIndex |-> historyIndex, lastOp |-> lastOp,
   lastSelection |-> lastSelection, selAlias |-> selAlias]

Sel(a, b) == [start |-> a, end |-> b]

HAt(h, i) == h[i + 1]

\* a write through this.selection also lands in the history item sharing it
WriteAlias(s, h, sel) ==
  IF s.selAlias # Null /\ s.selAlias < Len(h)
    THEN [h EXCEPT ![s.selAlias + 1].selection = sel]
    ELSE h

\* _history.splice(i, length - i)
HistorySplice(h, i) == SubSeq(h, 1, IF i < Len(h) THEN i ELSE Len(h))

\* ----------------------------------------------------- getValue/getRawValue
RECURSIVE RawFrom(_, _)
RawFrom(v, i) ==
  IF i >= Len(v) THEN <<>>
  ELSE (IF isEditableIndex(pattern, i) THEN <<At(v, i)>> ELSE <<>>)
         \o RawFrom(v, i + 1)

\* the whole value, literal slots included
WithLiterals(v) == Join(v)

getRawValue(v) == Join(RawFrom(v, 0))

\* this.value once getValue() has run
getValueArr(v) ==
  IF pattern.isRevealingMask
    THEN formatValue(pattern, Split(getRawValue(v)))
    ELSE v

getValue(v) == Join(getValueArr(v))

setValue(s, v) == [s EXCEPT !.value = formatValue(pattern, Split(v))]

\* ------------------------------------------------------------------ input
Max(a, b) == IF a > b THEN a ELSE b

\* a value in which nothing is blanked
KeepAll(v, hi, lo) == v

\* value[end] = placeholderChar for each editable end in (lo, hi], descending
RECURSIVE BlankDown(_, _, _)
BlankDown(v, hi, lo) ==
  IF hi <= lo THEN v
  ELSE BlankDown(IF isEditableIndex(pattern, hi)
                   THEN SetAt(v, hi, placeholderChar) ELSE v,
                 hi - 1, lo)

\* a cursor that stays where it is put
NoSkip(i) == i

\* skip over any subsequent static characters
RECURSIVE SkipStatic(_)
SkipStatic(i) ==
  IF PLength(pattern) > i /\ ~isEditableIndex(pattern, i)
    THEN SkipStatic(i + 1) ELSE i

\* a history that grows with every edit
PushesAlways(s, op, selectionBefore) == TRUE

\* the condition under which input()/backspace() push a history item
PushesHistory(s, op, selectionBefore) ==
  \/ s.lastOp # op
  \/ selectionBefore.start # selectionBefore.end
  \/ selectionBefore.start # s.lastSelection.start

\* input() resets _historyIndex after it discards the redoable entries
InputHistoryIndex(s) == Null

input(s, char) ==
  IF s.selection.start = s.selection.end
       /\ s.selection.start = PLength(pattern)
    THEN [s |-> s, ret |-> FALSE]
    ELSE
      LET selectionBefore == s.selection
          v0 == getValueArr(s.value)
          valueBefore == Join(v0)
          inputIndex == Max(s.selection.start, pattern.firstEditableIndex)
      IN IF isEditableIndex(pattern, inputIndex)
              /\ ~isValidAtIndex(pattern, char, inputIndex)
           THEN [s |-> [s EXCEPT !.value = v0], ret |-> FALSE]
           ELSE
             LET v1 == IF isEditableIndex(pattern, inputIndex)
                         THEN SetAt(v0, inputIndex,
                                    transform(pattern, char, inputIndex))
                         ELSE v0
                 v2 == BlankDown(v1, s.selection.end - 1, inputIndex)
                 cursor == SkipStatic(inputIndex + 1)
                 newSel == Sel(cursor, cursor)
                 h0 == WriteAlias(s, s.history, newSel)
                 h1 == IF s.historyIndex # Null
                         THEN HistorySplice(h0, s.historyIndex) ELSE h0
                 h2 == IF PushesHistory(s, "input", selectionBefore)
                         THEN Append(h1, [value |-> valueBefore,
                                          selection |-> selectionBefore,
                                          lastOp |-> s.lastOp,
                                          startUndo |-> FALSE])
                         ELSE h1
             IN [s |-> [value |-> v2, selection |-> newSel, history |-> h2,
                        historyIndex |->
                          IF s.historyIndex # Null
                            THEN InputHistoryIndex(s) ELSE s.historyIndex,
                        lastOp |-> "input", lastSelection |-> newSel,
                        selAlias |-> IF s.selAlias # Null /\ s.selAlias < Len(h1)
                                       THEN s.selAlias ELSE Null],
                 ret |-> TRUE]

\* -------------------------------------------------------------- backspace
\* backspace() leaves _historyIndex as it is
BackspaceHistoryIndex(s) == s.historyIndex

\* a value cut off at index i
CutAt(v, i) == SpliceFrom(v, i)

\* deleting the character before a collapsed cursor
BackspaceChar(v, i) ==
  IF isEditableIndex(pattern, i)
    THEN IF pattern.isRevealingMask
           THEN SpliceFrom(v, i)
           ELSE SetAt(v, i, placeholderChar)
    ELSE v

backspace(s) ==
  IF s.selection.start = 0 /\ s.selection.end = 0
    THEN [s |-> s, ret |-> FALSE]
    ELSE
      LET selectionBefore == s.selection
          v0 == getValueArr(s.value)
          valueBefore == Join(v0)
          collapsed == s.selection.start = s.selection.end
          v1 == IF collapsed
                  THEN BackspaceChar(v0, s.selection.start - 1)
                  ELSE BlankDown(v0, s.selection.end - 1, s.selection.start - 1)
          newSel == IF collapsed
                      THEN Sel(s.selection.start - 1, s.selection.end - 1)
                      ELSE Sel(s.selection.start, s.selection.start)
          h0 == WriteAlias(s, s.history, newSel)
          h1 == IF s.historyIndex # Null
                  THEN HistorySplice(h0, s.historyIndex) ELSE h0
          h2 == IF PushesHistory(s, "backspace", selectionBefore)
                  THEN Append(h1, [value |-> valueBefore,
                                   selection |-> selectionBefore,
                                   lastOp |-> s.lastOp,
                                   startUndo |-> FALSE])
                  ELSE h1
      IN [s |-> [value |-> v1, selection |-> newSel, history |-> h2,
                 historyIndex |-> BackspaceHistoryIndex(s),
                 lastOp |-> "backspace", lastSelection |-> newSel,
                 selAlias |-> IF s.selAlias # Null /\ s.selAlias < Len(h1)
                                THEN s.selAlias ELSE Null],
          ret |-> TRUE]

\* ------------------------------------------------------------------ paste
\* String.prototype.charAt: '' past the end
CharAt(str, i) == IF i >= 0 /\ i < Len(str) THEN str[i + 1] ELSE ""

\* String.prototype.substring(n)
Substring(str, n) == SubSeq(str, n + 1, Len(str))

\* the pattern character the i-th pasted character is compared with while the
\* selection starts inside the static prefix
PrefixPatternChar(s, i) == At(pattern.pattern, i)

\* restoring initialState; its _history is a shallow copy, so the item whose
\* selection object is this.selection carries whatever was written through it
Rollback(initialState, s) ==
  [value |-> initialState.value,
   selection |-> initialState.selection,
   history |-> IF initialState.selAlias # Null
                    /\ initialState.selAlias < Len(initialState.history)
                 THEN [initialState.history
                         EXCEPT ![initialState.selAlias + 1].selection = s.selection]
                 ELSE initialState.history,
   historyIndex |-> initialState.historyIndex,
   lastOp |-> initialState.lastOp,
   lastSelection |-> initialState.lastSelection,
   selAlias |-> Null]

\* whether a character input() refused is the static character just stepped over
IsSkippedStatic(s, char) ==
  /\ s.selection.start > 0
  /\ ~isEditableIndex(pattern, s.selection.start - 1)
  /\ char = At(pattern.pattern, s.selection.start - 1)

RECURSIVE PasteLoop(_, _, _, _)
PasteLoop(initialState, s, pastedInput, i) ==
  IF ~(i < Len(pastedInput) /\ s.selection.start <= pattern.lastEditableIndex)
    THEN [s |-> s, ret |-> TRUE]
    ELSE LET r == input(s, CharAt(pastedInput, i))
         IN IF r.ret \/ IsSkippedStatic(r.s, CharAt(pastedInput, i))
              THEN PasteLoop(initialState, r.s, pastedInput, i + 1)
              ELSE [s |-> Rollback(initialState, r.s), ret |-> FALSE]

paste(s, text) ==
  IF s.selection.start < pattern.firstEditableIndex
    THEN LET l == pattern.firstEditableIndex - s.selection.start
         IN IF \E i \in 0..(l - 1) : CharAt(text, i) # PrefixPatternChar(s, i)
              THEN [s |-> s, ret |-> FALSE]
              ELSE LET sel1 == Sel(pattern.firstEditableIndex, s.selection.end)
                       s1 == [s EXCEPT !.selection = sel1,
                                       !.history = WriteAlias(s, s.history, sel1)]
                   IN PasteLoop(s, s1, Substring(text, l), 0)
    ELSE PasteLoop(s, s, text, 0)

\* -------------------------------------------------------------- undo, redo
\* ret is "true", "false" or "throw" (a TypeError reading a missing item)
undo(s) ==
  IF Len(s.history) = 0 \/ s.historyIndex = 0
    THEN [s |-> s, ret |-> "false"]
    ELSE IF s.historyIndex = Null
      THEN LET idx == Len(s.history) - 1
               historyItem == HAt(s.history, idx)
               v0 == getValueArr(s.value)
               val == Join(v0)
               h1 == IF \/ historyItem.value # val
                        \/ historyItem.selection.start # s.selection.start
                        \/ historyItem.selection.end # s.selection.end
                       THEN Append(s.history,
                              [value |-> val, selection |-> s.selection,
                               lastOp |-> s.lastOp, startUndo |-> TRUE])
                       ELSE s.history
           IN [s |-> [s EXCEPT !.value = Split(historyItem.value),
                               !.selection = historyItem.selection,
                               !.lastOp = historyItem.lastOp,
                               !.history = h1,
                               !.historyIndex = idx,
                               !.selAlias = idx],
               ret |-> "true"]
      ELSE LET idx == s.historyIndex - 1
           IN IF idx >= Len(s.history)
                THEN [s |-> [s EXCEPT !.historyIndex = idx], ret |-> "throw"]
                ELSE LET historyItem == HAt(s.history, idx)
                     IN [s |-> [s EXCEPT !.value = Split(historyItem.value),
                                         !.selection = historyItem.selection,
                                         !.lastOp = historyItem.lastOp,
                                         !.historyIndex = idx,
                                         !.selAlias = idx],
                         ret |-> "true"]

redo(s) ==
  IF Len(s.history) = 0 \/ s.historyIndex = Null
    THEN [s |-> s, ret |-> "false"]
    ELSE LET idx == s.historyIndex + 1
         IN IF idx >= Len(s.history)
              THEN [s |-> [s EXCEPT !.historyIndex = idx], ret |-> "throw"]
              ELSE LET historyItem == HAt(s.history, idx)
                       last == idx = Len(s.history) - 1
                       popped == last /\ historyItem.startUndo
                   IN [s |-> [s EXCEPT
                                !.value = Split(historyItem.value),
                                !.selection = historyItem.selection,
                                !.lastOp = historyItem.lastOp,
                                !.history = IF popped
                                              THEN SubSeq(@, 1, Len(@) - 1) ELSE @,
                                !.historyIndex = IF last THEN Null ELSE idx,
                                !.selAlias = IF popped THEN Null ELSE idx],
                       ret |-> "true"]

\* ----------------------------------------------------------- setSelection
\* the first index, going down from `index`, that follows an editable,
\* non-placeholder character or is firstEditableIndex; Null when the loop ends
\* without finding one
RECURSIVE SnapBack(_, _)
SnapBack(v, index) ==
  IF index < pattern.firstEditableIndex THEN Null
  ELSE IF \/ /\ isEditableIndex(pattern, index - 1)
             /\ At(v, index - 1) # placeholderChar
          \/ index = pattern.firstEditableIndex
         THEN index
         ELSE SnapBack(v, index - 1)

setSelection(s, sel) ==
  IF sel.start = sel.end
    THEN IF sel.start < pattern.firstEditableIndex
           THEN [s |-> [s EXCEPT !.selection = Sel(pattern.firstEditableIndex,
                                                   pattern.firstEditableIndex),
                                 !.selAlias = Null],
                 ret |-> TRUE]
           ELSE LET index == SnapBack(s.value, sel.start)
                IN [s |-> [s EXCEPT !.selection =
                                       IF index = Null THEN sel ELSE Sel(index, index),
                                    !.selAlias = Null],
                    ret |-> TRUE]
    ELSE [s |-> [s EXCEPT !.selection = sel, !.selAlias = Null], ret |-> FALSE]

\* ---------------------------------------------------------------- actions
Bool(b) == IF b THEN "true" ELSE "false"

Call(op, arg, ret) == [op |-> op, arg |-> arg, ret |-> ret]

\* the engine's fields after a call that left them as the record s
Becomes(s) ==
  /\ value' = s.value
  /\ selection' = s.selection
  /\ history' = s.history
  /\ historyIndex' = s.historyIndex
  /\ lastOp' = s.lastOp
  /\ lastSelection' = s.lastSelection
  /\ selAlias' = s.selAlias
  /\ UNCHANGED <<pattern, placeholderChar>>

Selections ==
  {Sel(a, b) : a \in 0..PLength(pattern), b \in 0..PLength(pattern)}

ValidSelections == {sel \in Selections : sel.start <= sel.end}

\* every complete formatted value of the pattern over InputChars
RECURSIVE CompleteFrom(_)
CompleteFrom(i) ==
  IF i >= PLength(pattern) THEN {<<>>}
  ELSE LET here == IF isEditableIndex(pattern, i)
                     THEN {c \in InputChars : isValidAtIndex(pattern, c, i)}
                     ELSE {At(pattern.pattern, i)}
       IN {<<c>> \o rest : c \in here, rest \in CompleteFrom(i + 1)}

CompleteValues == CompleteFrom(0)

PasteTexts == StringsUpTo(InputChars, MaxPaste) \cup CompleteValues

\* new InputMask({pattern, isRevealingMask, placeholderChar})
Constructed(configs, script) ==
  /\ \E c \in configs :
       /\ pattern = Parse(c[1], c[2], c[3])
       /\ placeholderChar = c[2]
  /\ value = formatValue(pattern, Split(<<>>))
  /\ selection = Sel(0, 0)
  /\ history = <<>>
  /\ historyIndex = Null
  /\ lastOp = "null"
  /\ lastSelection = Sel(0, 0)
  /\ selAlias = Null
  /\ lastCall = Call("new", <<>>, "void")
  /\ phase = script
  /\ before = <<>>

Init == Constructed(Configs, "free")

InputWithin(bound) ==
  \E char \in InputChars :
    LET r == input(Cur, char)
    IN /\ Len(r.s.history) <= bound
       /\ Becomes(r.s)
       /\ lastCall' = Call("input", char, Bool(r.ret))
       /\ UNCHANGED <<phase, before>>

BackspaceWithin(bound) ==
  LET r == backspace(Cur)
  IN /\ Len(r.s.history) <= bound
     /\ Becomes(r.s)
     /\ lastCall' = Call("backspace", <<>>, Bool(r.ret))
     /\ UNCHANGED <<phase, before>>

PasteWithin(bound) ==
  \E text \in PasteTexts :
    LET r == paste(Cur, text)
    IN /\ Len(r.s.history) <= bound
       /\ Becomes(r.s)
       /\ lastCall' = Call("paste", text, Bool(r.ret))
       /\ UNCHANGED <<phase, before>>

\* undo() may add the item it redoes back to
UndoWithin(bound) ==
  LET r == undo(Cur)
  IN /\ Len(r.s.history) <= bound + 1
     /\ Becomes(r.s)
     /\ lastCall' = Call("undo", <<>>, r.ret)
     /\ UNCHANGED <<phase, before>>

RedoWithin(bound) ==
  LET r == redo(Cur)
  IN /\ r.s.historyIndex <= bound + 1
     /\ Becomes(r.s)
     /\ lastCall' = Call("redo", <<>>, r.ret)
     /\ UNCHANGED <<phase, before>>

Input == InputWithin(MaxHistory)
Backspace == BackspaceWithin(MaxHistory)
Paste == PasteWithin(MaxHistory)
Undo == UndoWithin(MaxHistory)
Redo == RedoWithin(MaxHistory)

SetSelection ==
  \E sel \in ValidSelections :
    LET r == setSelection(Cur, sel)
    IN /\ Becomes(r.s)
       /\ lastCall' = Call("setSelection", sel, Bool(r.ret))
       /\ UNCHANGED <<phase, before>>

Next ==
  \/ Input
  \/ Backspace
  \/ Paste
  \/ Undo
  \/ Redo
  \/ SetSelection

Spec == Init /\ [][Next]_vars

\* ----------------------------------------------- pasting, on every mask
NextPaste ==
  \/ Paste
  \/ Undo

SpecPaste == Constructed(TypingConfigs, "free") /\ [][NextPaste]_vars

\* ------------------------------- input/backspace, then undo all, redo all
EditInput == phase = "edit" /\ InputWithin(MaxTypingHistory)

EditBackspace == phase = "edit" /\ BackspaceWithin(MaxTypingHistory)

\* undo() until it returns false; the first call records what it started from
UndoAll ==
  /\ phase \in {"edit", "undo"}
  /\ LET r == undo(Cur)
     IN /\ Becomes(r.s)
        /\ lastCall' = Call("undo", <<>>, r.ret)
        /\ phase' = IF r.ret = "true" THEN "undo" ELSE "redo"
        /\ before' = IF phase = "edit"
                       THEN [selection |-> selection,
                             text |-> getValue(value),
                             raw |-> getRawValue(value)]
                       ELSE before

\* then redo() until it returns false
RedoAll ==
  /\ phase = "redo"
  /\ LET r == redo(Cur)
     IN /\ Becomes(r.s)
        /\ lastCall' = Call("redo", <<>>, r.ret)
        /\ phase' = IF r.ret = "true" THEN "redo" ELSE "done"
        /\ UNCHANGED before

NextUndoRedo ==
  \/ EditInput
  \/ EditBackspace
  \/ UndoAll
  \/ RedoAll

SpecUndoRedo == Constructed(TypingConfigs, "edit") /\ [][NextUndoRedo]_vars

\* ------------------------------------- input/backspace/paste, then setValue
EditPaste == phase = "edit" /\ PasteWithin(MaxTypingHistory)

\* setValue(v), with v any short string or the engine's own getRawValue()
SetValue ==
  \E v \in StringsUpTo(InputChars, MaxValueLen) \cup {getRawValue(value)} :
    /\ Becomes(setValue(Cur, v))
    /\ lastCall' = Call("setValue", v, "void")
    /\ phase' = "set"
    /\ UNCHANGED before

NextValue ==
  \/ EditInput
  \/ EditBackspace
  \/ EditPaste
  \/ SetValue

SpecValue == Constructed(TypingConfigs, "edit") /\ [][NextValue]_vars

\* ------------------------------- pasting into a two-character static prefix
NextPrefix ==
  \/ SetSelection
  \/ EditPaste

SpecPrefix ==
  Constructed({<<LongPrefixMask, "_", FALSE>>}, "edit") /\ [][NextPrefix]_vars

\* --------------------------------------------- compiling a mask source
\* characters of a mask source: two symbols, a plain character, the escape
MaskChars == {"1", "A", "-", ESCAPE_CHAR}

MaskSources == StringsUpTo(MaskChars, MaxMaskLen)

\* a Pattern under construction: its fields are set, _parse() is still to run
InitParse ==
  /\ \E source \in MaskSources, revealing \in BOOLEAN :
       /\ pattern = Unparsed(source, DEFAULT_PLACEHOLDER_CHAR, revealing)
       /\ lastCall = Call("new Pattern", source, "void")
  /\ placeholderChar = DEFAULT_PLACEHOLDER_CHAR
  /\ value = <<>>
  /\ selection = Sel(0, 0)
  /\ history = <<>>
  /\ historyIndex = Null
  /\ lastOp = "null"
  /\ lastSelection = Sel(0, 0)
  /\ selAlias = Null
  /\ phase = "source"
  /\ before = <<>>

\* this._parse(): the pattern is compiled or an Error is thrown
Compile ==
  /\ phase = "source"
  /\ pattern' = Parse(pattern.source, placeholderChar, pattern.isRevealingMask)
  /\ lastCall' = Call("_parse", pattern.source,
                      IF pattern'.error = "" THEN "void" ELSE "throw")
  /\ phase' = "compiled"
  /\ UNCHANGED <<placeholderChar, value, selection, history, historyIndex,
                 lastOp, lastSelection, selAlias, before>>

NextParse == Compile

SpecParse == InitParse /\ [][NextParse]_vars

\* ------------------------------ a run of typing, then undo, then undo again
\* every compiled mask source, with either placeholder, in either mask mode
RunConfigs ==
  {<<source, placeholder, revealing>> :
     source \in {m \in MaskSources :
                   Parse(m, DEFAULT_PLACEHOLDER_CHAR, FALSE).error = ""},
     placeholder \in {DEFAULT_PLACEHOLDER_CHAR, ""},
     revealing \in BOOLEAN}

\* a successful input() at the collapsed cursor the previous call left
RunInput ==
  /\ phase = "typing"
  /\ \E char \in InputChars :
       LET r == input(Cur, char)
       IN /\ r.ret
          /\ Becomes(r.s)
          /\ lastCall' = Call("input", char, Bool(r.ret))
  /\ UNCHANGED <<phase, before>>

\* undo() right after the run
UndoRun ==
  /\ phase = "typing"
  /\ lastCall.op = "input"
  /\ LET r == undo(Cur)
     IN /\ Becomes(r.s)
        /\ lastCall' = Call("undo", <<>>, r.ret)
  /\ phase' = "undone"
  /\ UNCHANGED before

\* and undo() once more
UndoAgain ==
  /\ phase = "undone"
  /\ LET r == undo(Cur)
     IN /\ Becomes(r.s)
        /\ lastCall' = Call("undo", <<>>, r.ret)
  /\ phase' = "undone twice"
  /\ UNCHANGED before

NextRun ==
  \/ RunInput
  \/ UndoRun
  \/ UndoAgain

SpecRun == Constructed(RunConfigs, "typing") /\ [][NextRun]_vars

\* -------------------- typing, then a selection, then one edit over it
SelectRange ==
  /\ phase = "edit"
  /\ \E sel \in ValidSelections :
       LET r == setSelection(Cur, sel)
       IN /\ Becomes(r.s)
          /\ lastCall' = Call("setSelection", sel, Bool(r.ret))
  /\ phase' = "selected"
  /\ UNCHANGED before

OverInput ==
  /\ phase = "selected"
  /\ \E char \in InputChars :
       LET r == input(Cur, char)
       IN /\ Becomes(r.s)
          /\ lastCall' = Call("input", char, Bool(r.ret))
  /\ phase' = "replaced"
  /\ UNCHANGED before

OverBackspace ==
  /\ phase = "selected"
  /\ LET r == backspace(Cur)
     IN /\ Becomes(r.s)
        /\ lastCall' = Call("backspace", <<>>, Bool(r.ret))
  /\ phase' = "deleted"
  /\ UNCHANGED before

NextRange ==
  \/ EditInput
  \/ EditBackspace
  \/ SelectRange
  \/ OverInput
  \/ OverBackspace

SpecRange == Constructed(TypingConfigs, "edit") /\ [][NextRange]_vars

\* ------------------------------------------------------------------ claims
emptyValue == formatValue(pattern, <<>>)

IsPlaceholder(c) == c = placeholderChar \/ c = pattern.placeholderChar

SlotWellFormed(v, i) ==
  IF isEditableIndex(pattern, i)
    THEN IsPlaceholder(At(v, i)) \/ isValidAtIndex(pattern, At(v, i), i)
    ELSE At(v, i) = At(pattern.pattern, i)

WellFormed(v) == \A i \in 0..(PLength(pattern) - 1) : SlotWellFormed(v, i)

\* C1: on a non-revealing mask the value buffer is always well-formed: every
\* literal slot holds the pattern's literal, every editable slot holds a
\* placeholder or a character its validator accepts.
C1_WellFormed == ~pattern.isRevealingMask => WellFormed(value)

\* C2: the value buffer always has exactly pattern.length entries, in either
\* mask mode and with any allowed placeholderChar.
C2_FixedLength == Len(value) = PLength(pattern)

\* C3: started with, and only ever given, selections with
\* 0 <= start <= end <= pattern.length, the engine keeps its selection so.
C3_SelectionInRange ==
  /\ 0 <= selection.start
  /\ selection.start <= selection.end
  /\ selection.end <= PLength(pattern)

\* C4: an input(char) that returns false leaves value, selection, history,
\* historyIndex, lastOp and lastSelection exactly as they were.
C4_RejectedInputNoChange ==
  [][(lastCall'.op = "input" /\ lastCall'.ret = "false")
       => UNCHANGED engine]_vars

\* C5: a paste(text) that returns false leaves value, selection, history,
\* historyIndex, lastOp and lastSelection exactly as they were.
C5_FailedPasteNoChange ==
  [][(lastCall'.op = "paste" /\ lastCall'.ret = "false")
       => UNCHANGED engine]_vars

\* the text with each slot's transform applied
Transformed(text) ==
  [k \in 1..Len(text) |->
     IF isEditableIndex(pattern, k - 1)
       THEN transform(pattern, text[k], k - 1) ELSE text[k]]

IsFresh == value = emptyValue /\ selection = Sel(0, 0)

\* C6: pasting a complete formatted value of the mask (its literals included)
\* into an engine with empty value and selection {0,0} returns true and
\* leaves getValue() equal to that text, transformed.
C6_PasteCompleteValue ==
  [][(IsFresh /\ lastCall'.op = "paste" /\ lastCall'.arg \in CompleteValues)
       => /\ lastCall'.ret = "true"
          /\ getValue(value') = Transformed(lastCall'.arg)]_vars

\* C7: from a fresh engine, after any input/backspace calls, undo() until it
\* returns false and then redo() until it returns false leaves exactly the
\* value and the selection there were before the first undo: the value as
\* getValue() and getRawValue() read it, and the selection.
C7_UndoRedoInverse ==
  phase = "done" =>
    /\ getValue(value) = before.text
    /\ getRawValue(value) = before.raw
    /\ selection = before.selection

\* C8: a successful input() or backspace() in undo mode discards every
\* redoable history entry and returns the engine to live mode, so a redo()
\* right after it returns false and changes nothing.
C8_BranchDiscarded ==
  [][(/\ historyIndex # Null
      /\ lastCall'.op \in {"input", "backspace"}
      /\ lastCall'.ret = "true")
       => /\ historyIndex' = Null
          /\ redo(Cur').ret = "false"
          /\ redo(Cur').s = Cur']_vars

\* C9: on a non-revealing mask, for every buffer reached by input, backspace
\* and paste, setValue(getRawValue()) leaves the buffer as it was.
C9_RawValueIdempotent ==
  [][(/\ phase = "edit"
      /\ ~pattern.isRevealingMask
      /\ lastCall'.op = "setValue"
      /\ lastCall'.arg = getRawValue(value))
       => value' = value]_vars

\* the first editable slot holding no accepted character, or pattern.length
RECURSIVE FirstUnfilledFrom(_, _)
FirstUnfilledFrom(str, i) ==
  IF i >= PLength(pattern) THEN i
  ELSE IF isEditableIndex(pattern, i)
            /\ ~(i < Len(str) /\ isValidAtIndex(pattern, At(str, i), i))
         THEN i
         ELSE FirstUnfilledFrom(str, i + 1)

LiteralsInPlace(str) ==
  \A i \in 0..(Len(str) - 1) :
    ~isEditableIndex(pattern, i) => At(str, i) = At(pattern.pattern, i)

\* C10: setValue(v) then getValue() returns, on a non-revealing mask, a
\* string of length pattern.length, and on a revealing mask a string no longer
\* than the pattern that stops exactly at the first unfilled editable slot
\* (so no editable slot of it holds a placeholder); every literal position
\* present equals the mask's literal.
C10_SetValueRoundTrip ==
  lastCall.op = "setValue" =>
    LET str == getValue(value)
    IN /\ LiteralsInPlace(str)
       /\ IF pattern.isRevealingMask
            THEN /\ Len(str) <= PLength(pattern)
                 /\ Len(str) = FirstUnfilledFrom(str, 0)
            ELSE Len(str) = PLength(pattern)

\* ------------------------------------------------------------ formatValue
\* the index of the candidate character offered to slot i, when every editable
\* slot before i took one candidate and every literal slot took the candidate
\* equal to its literal
RECURSIVE Offered(_, _)
Offered(v, i) ==
  IF i = 0 THEN 0
  ELSE LET k == Offered(v, i - 1)
       IN IF isEditableIndex(pattern, i - 1)
            THEN k + 1
            ELSE IF k < Len(v) /\ At(v, k) = At(pattern.pattern, i - 1)
                   THEN k + 1 ELSE k

\* the same index when an editable slot takes a candidate only if it accepts it
RECURSIVE OfferedKeeping(_, _)
OfferedKeeping(v, i) ==
  IF i = 0 THEN 0
  ELSE LET k == OfferedKeeping(v, i - 1)
       IN IF isEditableIndex(pattern, i - 1)
            THEN IF k < Len(v) /\ isValidAtIndex(pattern, At(v, k), i - 1)
                   THEN k + 1 ELSE k
            ELSE IF k < Len(v) /\ At(v, k) = At(pattern.pattern, i - 1)
                   THEN k + 1 ELSE k

\* what editable slot i holds when it is offered candidate k of v
Filled(v, k, i) ==
  IF k < Len(v) /\ isValidAtIndex(pattern, At(v, k), i)
    THEN transform(pattern, At(v, k), i)
    ELSE pattern.placeholderChar

Refused(v, k, i) == k < Len(v) /\ ~isValidAtIndex(pattern, At(v, k), i)

\* C11 (as amended): formatValue offers each editable slot the next candidate
\* and consumes it whether or not the slot's validator accepts it: a refused
\* candidate leaves the placeholder in the slot and is not offered again; an
\* accepted one is stored transformed.
C11_FormatConsumes ==
  lastCall.op = "setValue" =>
    \A i \in pattern.editableIndices :
      At(value, i) # Undefined =>
        At(value, i) = Filled(lastCall.arg, Offered(lastCall.arg, i), i)

\* C11 (as stated): a candidate an editable slot refuses is not consumed; it
\* is still the one offered to the following slots.
C11_FormatKeeps ==
  lastCall.op = "setValue" =>
    \A i \in pattern.editableIndices :
      At(value, i) # Undefined =>
        At(value, i) = Filled(lastCall.arg, OfferedKeeping(lastCall.arg, i), i)

\* a formatted value in which a slot refused its candidate and a later slot
\* accepted the next one
C11_Witness ==
  /\ lastCall.op = "setValue"
  /\ \E i, j \in pattern.editableIndices :
       /\ i < j
       /\ Refused(lastCall.arg, Offered(lastCall.arg, i), i)
       /\ At(value, i) = pattern.placeholderChar
       /\ ~Refused(lastCall.arg, Offered(lastCall.arg, j), j)
       /\ Offered(lastCall.arg, j) < Len(lastCall.arg)
       /\ At(value, j) = transform(pattern, At(lastCall.arg, Offered(lastCall.arg, j)), j)

\* ------------------------------------------------------------ getRawValue
\* the editable slots whose entry join('') keeps
KeptSlots(v) ==
  {i \in pattern.editableIndices :
     i < Len(v) /\ At(v, i) # Undefined /\ At(v, i) # ""}

\* the characters of v that some editable slot holds as accepted input
RECURSIVE EnteredFrom(_, _)
EnteredFrom(v, i) ==
  IF i >= Len(v) THEN <<>>
  ELSE (IF isEditableIndex(pattern, i) /\ isValidAtIndex(pattern, At(v, i), i)
          THEN <<At(v, i)>> ELSE <<>>)
         \o EnteredFrom(v, i + 1)

PrefixMatches(s, text) ==
  \A i \in 0..(pattern.firstEditableIndex - s.selection.start - 1) :
    CharAt(text, i) = At(pattern.pattern, s.selection.start + i)

\* the rest of text applied from the first editable slot
PastedPastPrefix(s, text) ==
  PasteLoop(s, [s EXCEPT !.selection.start = pattern.firstEditableIndex],
            Substring(text, pattern.firstEditableIndex - s.selection.start), 0)

\* C13: a paste(text) with the selection starting at s inside the literal
\* prefix goes ahead only if the first (firstEditableIndex - s) characters of
\* text equal the literals at slots s .. firstEditableIndex-1; on a mismatch it
\* returns false and changes nothing, on a match those characters are stripped
\* and the rest is applied from firstEditableIndex.
C13_PrefixMustMatch ==
  [][(selection.start < pattern.firstEditableIndex /\ lastCall'.op = "paste")
       => IF PrefixMatches(Cur, lastCall'.arg)
            THEN /\ lastCall'.ret = Bool(PastedPastPrefix(Cur, lastCall'.arg).ret)
                 /\ value' = PastedPastPrefix(Cur, lastCall'.arg).s.value
            ELSE /\ lastCall'.ret = "false"
                 /\ UNCHANGED engine]_vars

\* ------------------------------------------------------------ compilation
\* source index i holds an escape character that escapes the one after it
RECURSIVE IsEscapeAt(_, _)
IsEscapeAt(source, i) ==
  /\ i >= 0
  /\ i < Len(source)
  /\ At(source, i) = ESCAPE_CHAR
  /\ ~IsEscapeAt(source, i - 1)

EscapesIn(source) == {i \in 0..(Len(source) - 1) : IsEscapeAt(source, i)}

\* the slot the character at source index i compiles to
SlotOf(source, i) == i - Cardinality({e \in EscapesIn(source) : e < i})

\* the character at source index i is an unescaped registered symbol
IsSymbolAt(source, i) ==
  /\ ~IsEscapeAt(source, i)
  /\ ~IsEscapeAt(source, i - 1)
  /\ At(source, i) \in DEFAULT_FORMAT_CHARACTERS

Compiled == phase = "compiled" /\ pattern.error = ""

\* C14: for every mask source that compiles, each escape character and the
\* character after it yield one literal slot holding that character, every
\* unescaped registered symbol yields one editable slot, every other
\* character one literal slot; pattern.length is the source length minus the
\* number of escape pairs, and firstEditableIndex/lastEditableIndex are the
\* least and the greatest editable index.
C14_OneSlotPerPair ==
  Compiled =>
    LET source == pattern.source IN
    /\ PLength(pattern) = Len(source) - Cardinality(EscapesIn(source))
    /\ \A i \in 0..(Len(source) - 1) :
         ~IsEscapeAt(source, i) =>
           /\ At(pattern.pattern, SlotOf(source, i)) = At(source, i)
           /\ isEditableIndex(pattern, SlotOf(source, i)) <=> IsSymbolAt(source, i)
    /\ pattern.editableIndices \subseteq 0..(PLength(pattern) - 1)
    /\ pattern.firstEditableIndex \in pattern.editableIndices
    /\ pattern.lastEditableIndex \in pattern.editableIndices
    /\ \A k \in pattern.editableIndices :
         pattern.firstEditableIndex <= k /\ k <= pattern.lastEditableIndex

\* a compiled source in which an escaped registered symbol became a literal
\* slot next to an editable one
C14_Witness ==
  /\ Compiled
  /\ \E i \in EscapesIn(pattern.source) :
       /\ At(pattern.source, i + 1) \in DEFAULT_FORMAT_CHARACTERS
       /\ ~isEditableIndex(pattern, SlotOf(pattern.source, i + 1))
       /\ At(pattern.pattern, SlotOf(pattern.source, i + 1)) = At(pattern.source, i + 1)
  /\ PLength(pattern) < Len(pattern.source)

\* the source ends with an escape character that escapes nothing
EndsWithRawEscape(source) == IsEscapeAt(source, Len(source) - 1)

HasSymbol(source) == \E i \in 0..(Len(source) - 1) : IsSymbolAt(source, i)

\* C15: constructing a Pattern fails exactly when the mask source ends with
\* an unpaired escape character or contains no unescaped registered symbol;
\* every other source compiles, with at least one editable index.
C15_FailsExactlyWhen ==
  phase = "compiled" =>
    /\ pattern.error # "" <=>
         (EndsWithRawEscape(pattern.source) \/ ~HasSymbol(pattern.source))
    /\ lastCall.ret = "throw" <=> pattern.error # ""
    /\ pattern.error = "" => pattern.editableIndices # {}

\* a source with a registered symbol that fails on its trailing escape, after
\* _parse() has run
C15_Witness ==
  /\ phase = "compiled"
  /\ lastCall.ret = "throw"
  /\ EndsWithRawEscape(pattern.source)
  /\ HasSymbol(pattern.source)

\* ------------------------------------------------------- history coalescing
\* what getValue() returns on a freshly constructed engine
FreshText == getValue(formatValue(pattern, <<>>))

\* the number of editable slots of a text that hold accepted input
EnteredCount(text) ==
  Cardinality({i \in pattern.editableIndices :
                 i < Len(text) /\ isValidAtIndex(pattern, At(text, i), i)})

InRange(sel) ==
  0 <= sel.start /\ sel.start <= sel.end /\ sel.end <= PLength(pattern)

AtEnd(sel) == sel.start = sel.end /\ sel.start = PLength(pattern)

\* C17: an input(char) that returns true, from a selection with
\* 0 <= start <= end <= pattern.length, leaves the selection collapsed,
\* strictly after max(old start, firstEditableIndex), and on an editable slot
\* or exactly at pattern.length; with the selection collapsed at
\* pattern.length, input returns false and changes nothing.
C17_CursorAdvances ==
  [][(lastCall'.op = "input" /\ InRange(selection))
       => /\ lastCall'.ret = "true" =>
               /\ selection'.start = selection'.end
               /\ selection'.start > Max(selection.start, pattern.firstEditableIndex)
               /\ \/ isEditableIndex(pattern, selection'.start)
                  \/ selection'.start = PLength(pattern)
          /\ AtEnd(selection) =>
               /\ lastCall'.ret = "false"
               /\ UNCHANGED engine]_vars

\* a successful input has stepped the cursor over a static slot onto the
\* next editable one
C17_Witness ==
  /\ lastCall.op = "input"
  /\ lastCall.ret = "true"
  /\ selection.start = selection.end
  /\ selection.start >= 2
  /\ ~isEditableIndex(pattern, selection.start - 1)
  /\ isEditableIndex(pattern, selection.start)

\* ------------------------------------------------- input over a selection
\* the index input() writes at
InsertionIndex(sel) == Max(sel.start, pattern.firstEditableIndex)

Slots == 0..(PLength(pattern) - 1)

\* a successful input(char) over a range selection of a non-revealing mask
RangeInputStep ==
  /\ ~pattern.isRevealingMask
  /\ InRange(selection)
  /\ selection.start < selection.end
  /\ lastCall'.op = "input"
  /\ lastCall'.ret = "true"

\* the insertion slot holds the transformed char, the editable slots between
\* it and the selection end hold the placeholder
ReplacedSelection ==
  \A i \in Slots :
    isEditableIndex(pattern, i) =>
      /\ i = InsertionIndex(selection) =>
           At(value', i) = transform(pattern, lastCall'.arg, i)
      /\ (InsertionIndex(selection) < i /\ i < selection.end) =>
           At(value', i) = placeholderChar

\* C18 (as amended): on a non-revealing mask, a successful input(char) over a
\* range selection {start, end} changes only the insertion slot and the slots
\* strictly between the insertion index and end: the insertion slot (if
\* editable) holds the transformed char, the editable slots between hold the
\* placeholder, every literal slot and every other slot keeps its content.
\* The insertion slot is changed also when it lies at or after end.
C18_ChangesInsertionAndRange ==
  [][RangeInputStep
       => /\ ReplacedSelection
          /\ \A i \in Slots :
               (\/ ~isEditableIndex(pattern, i)
                \/ i < InsertionIndex(selection)
                \/ (i > InsertionIndex(selection) /\ i >= selection.end))
                 => At(value', i) = At(value, i)]_vars

\* C18 (as stated): the input changes only slots in [insertionIndex, end).
C18_ChangesOnlyRange ==
  [][RangeInputStep
       => /\ ReplacedSelection
          /\ \A i \in Slots :
               (\/ ~isEditableIndex(pattern, i)
                \/ i < InsertionIndex(selection)
                \/ i >= selection.end)
                 => At(value', i) = At(value, i)]_vars

\* an input over a range has replaced one entered character and blanked another
C18_Witness ==
  /\ phase = "replaced"
  /\ lastCall.op = "input"
  /\ lastCall.ret = "true"
  /\ ~pattern.isRevealingMask
  /\ Len(history) >= 2
  /\ LET sel == history[Len(history)].selection
         text == history[Len(history)].value
     IN /\ sel.start < sel.end
        /\ \E i \in Slots :
             /\ isEditableIndex(pattern, i)
             /\ InsertionIndex(sel) < i
             /\ i < sel.end
             /\ isValidAtIndex(pattern, At(text, i), i)
             /\ At(value, i) = placeholderChar

\* -------------------------------------------------------------- backspace
\* the range a backspace deletes: the slot before a collapsed cursor, or the
\* selected range
DeletedFrom(sel) == IF sel.start = sel.end THEN sel.start - 1 ELSE sel.start

DeletedTo(sel) == IF sel.start = sel.end THEN sel.start ELSE sel.end

\* C19: on a non-revealing mask, a successful backspace() changes only the
\* editable slots inside the deleted range ([cursor-1, cursor) for a collapsed
\* cursor, [start, end) for a range), sets each of them to the placeholder,
\* leaves literal slots and slots outside the range unchanged, and leaves the
\* selection collapsed at the start of the deleted range; backspace() with
\* selection {0,0} returns false and changes nothing.
C19_BackspaceClearsRange ==
  [][(/\ ~pattern.isRevealingMask
      /\ InRange(selection)
      /\ lastCall'.op = "backspace")
       => /\ lastCall'.ret = "true" =>
               /\ \A i \in Slots :
                    IF /\ isEditableIndex(pattern, i)
                       /\ DeletedFrom(selection) <= i
                       /\ i < DeletedTo(selection)
                      THEN At(value', i) = placeholderChar
                      ELSE At(value', i) = At(value, i)
               /\ selection' = Sel(DeletedFrom(selection), DeletedFrom(selection))
          /\ selection = Sel(0, 0) =>
               /\ lastCall'.ret = "false"
               /\ UNCHANGED engine
          /\ lastCall'.ret = "false" => selection = Sel(0, 0)]_vars

\* a backspace over a range has cleared an entered character and left the
\* cursor at the start of the range
C19_Witness ==
  /\ phase = "deleted"
  /\ lastCall.op = "backspace"
  /\ lastCall.ret = "true"
  /\ ~pattern.isRevealingMask
  /\ Len(history) >= 2
  /\ LET sel == history[Len(history)].selection
         text == history[Len(history)].value
     IN /\ sel.start < sel.end
        /\ selection = Sel(sel.start, sel.start)
        /\ \E i \in Slots :
             /\ isEditableIndex(pattern, i)
             /\ sel.start <= i
             /\ i < sel.end
             /\ isValidAtIndex(pattern, At(text, i), i)
             /\ At(value, i) = placeholderChar

\* ---------------------------------------------------------- history cursor
\* C20: in every reachable state the history cursor is consistent:
\* historyIndex is null, or 0 <= historyIndex < history.length - 1, so that a
\* redo() in undo mode finds the history entry it restores.
C20_HistoryIndexInRange ==
  /\ historyIndex # Null =>
       /\ 0 <= historyIndex
       /\ historyIndex < Len(history) - 1
  /\ redo(Cur).ret # "throw"

\* ------------------------------------------------------------ setSelection
\* position c is the first editable slot, or follows an editable slot that
\* holds a character other than the placeholder
AfterEntered(v, c) ==
  \/ c = pattern.firstEditableIndex
  \/ /\ isEditableIndex(pattern, c - 1)
     /\ At(v, c - 1) # Undefined
     /\ At(v, c - 1) # placeholderChar

\* C21: setSelection with a collapsed selection at p returns true, changes
\* neither value nor history, and puts the cursor at the largest c <= p with
\* firstEditableIndex <= c <= max(p, firstEditableIndex) that is
\* firstEditableIndex or follows an editable slot holding a non-placeholder
\* character; with a range selection it stores the selection unchanged and
\* returns false.
C21_CursorSnapsBack ==
  [][lastCall'.op = "setSelection"
       => LET sel == lastCall'.arg
              p == sel.start
              c == selection'.start
          IN /\ UNCHANGED <<value, history, historyIndex>>
             /\ IF sel.start = sel.end
                  THEN /\ lastCall'.ret = "true"
                       /\ selection'.end = c
                       /\ pattern.firstEditableIndex <= c
                       /\ c <= Max(p, pattern.firstEditableIndex)
                       /\ AfterEntered(value, c)
                       /\ \A d \in (c + 1)..p : ~AfterEntered(value, d)
                  ELSE /\ lastCall'.ret = "false"
                       /\ selection' = sel]_vars

=============================================================================
